---- MODULE Spec2Model ----
(***************************************************************************)
(* Model of weather.py: the ContextVar call context, the JSON / plain log  *)
(* formatters, the instrumented fetcher make_nws_request and the two tools *)
(* get_alerts and get_forecast, run as asyncio tasks that interleave only  *)
(* at the await of the HTTP GET.                                           *)
(***************************************************************************)
EXTENDS Integers, Sequences, FiniteSets, TLC

(* ------------------------------ bounds -------------------------------- *)
\* invocations one execution context (task) runs one after the other
MaxOps == 2
\* longest 'features' list an alerts payload holds
MaxFeatures == 2
\* longest 'periods' list a forecast payload holds
MaxPeriods == 6
\* records handed to the handler when the formatter is exercised on its own
MaxRecords == 2

\* asyncio tasks, each with its own copy of the context variables
Tasks == {"t1", "t2"}

(* ------------------- JSON values and Python semantics ------------------ *)
\* Python None, which is also what JSON null decodes to
PyNone == [type |-> "null"]
JStr(s) == [type |-> "string", s |-> s]
JNum(n) == [type |-> "number", n |-> n]
JArr(items) == [type |-> "array", items |-> items]
JObj(members) == [type |-> "object", members |-> members]
EmptyMembers == [k \in {} |-> PyNone]

\* a raised exception, as the value of an evaluation
Exc(name) == [type |-> "exception", name |-> name]
IsExc(v) == v.type = "exception"

\* bool(v), as 'not data' and 'not data["features"]' evaluate it
Truthy(v) ==
    CASE v.type = "null" -> FALSE
      [] v.type = "number" -> v.n # 0
      [] v.type = "string" -> v.s # ""
      [] v.type = "array" -> v.items # <<>>
      [] v.type = "object" -> DOMAIN v.members # {}

\* key in v  (a number or None is not a container: TypeError)
KeyIn(key, v) ==
    CASE v.type = "object" -> [type |-> "bool", b |-> key \in DOMAIN v.members]
      [] v.type = "array" ->
           [type |-> "bool", b |-> \E i \in DOMAIN v.items : v.items[i] = JStr(key)]
      [] v.type \in {"number", "null"} -> Exc("TypeError")

\* v[key] for a string key
GetItem(v, key) ==
    CASE v.type = "object" ->
           IF key \in DOMAIN v.members THEN v.members[key] ELSE Exc("KeyError")
      [] v.type \in {"array", "string", "number", "null"} -> Exc("TypeError")

\* v.get(key, default)
DictGet(v, key, default) ==
    CASE v.type = "object" ->
           IF key \in DOMAIN v.members THEN v.members[key] ELSE JStr(default)
      [] v.type \in {"array", "string", "number", "null"} -> Exc("AttributeError")

\* str(v), as an f-string placeholder renders it
Str(v) ==
    CASE v.type = "string" -> v.s
      [] v.type = "number" -> ToString(v.n)
      [] v.type = "null" -> "None"

\* the items a for loop or a comprehension visits
Iterate(v) ==
    CASE v.type = "array" -> [type |-> "list", items |-> v.items]
      [] v.type \in {"number", "null"} -> Exc("TypeError")

\* v[:n]
Slice(v, n) ==
    CASE v.type = "array" ->
           [type |-> "list",
            items |-> SubSeq(v.items, 1, IF Len(v.items) < n THEN Len(v.items) ELSE n)]
      [] v.type \in {"object", "number", "null"} -> Exc("TypeError")

(* -------------------------------- text --------------------------------- *)
\* A str value is the sequence of its lines (split at "\n"); the empty
\* string is the one empty line.
EmptyText == <<"">>
Line(s) == <<s>>

\* a + b
Concat(a, b) ==
    SubSeq(a, 1, Len(a) - 1) \o <<a[Len(a)] \o b[1]>> \o Tail(b)

\* a bare newline in place of the separator line
Separator_newline == <<"", "">>

\* "\n---\n"
Separator == <<"", "---", "">>

RECURSIVE Join(_, _)
\* sep.join(parts)
Join(sep, parts) ==
    IF parts = <<>> THEN EmptyText
    ELSE IF Len(parts) = 1 THEN parts[1]
    ELSE Concat(Concat(parts[1], sep), Join(sep, Tail(parts)))

\* a slice that lets a sixth period through
ForecastPeriods_six == 5 + 1

\* periods[:5] keeps at most this many periods
ForecastPeriods == 5

(* ---------------------------- format_alert ----------------------------- *)
\* Exception or text
format_alert(feature) ==
    LET props == GetItem(feature, "properties") IN
    IF IsExc(props) THEN props
    ELSE LET event == DictGet(props, "event", "Unknown")
             area == DictGet(props, "areaDesc", "Unknown")
             severity == DictGet(props, "severity", "Unknown")
             description == DictGet(props, "description", "No description available")
             instruction == DictGet(props, "instruction", "No specific instructions provided")
         IN IF IsExc(event) THEN event
            ELSE [type |-> "text",
                  lines |-> << "",
                               "Event: " \o Str(event),
                               "Area: " \o Str(area),
                               "Severity: " \o Str(severity),
                               "Description: " \o Str(description),
                               "Instructions: " \o Str(instruction),
                               "" >>]

(* ------------------------------- logging ------------------------------- *)
\* logging's numeric order of the level names
LevelNo(level) ==
    CASE level = "DEBUG" -> 10
      [] level = "INFO" -> 20
      [] level = "WARNING" -> 30
      [] level = "ERROR" -> 40

\* values LOG_LEVEL and ENV take in the model
LogLevels == {"DEBUG", "INFO", "WARNING", "ERROR"}
Envs == {"production", "development"}

\* the clock is not modelled: every timestamp reads the same, and every
\* f"{duration.total_seconds():.6f}s" renders the same elapsed time
Now == "2024-01-01T00:00:00.000000"
Elapsed == "0.250000s"
\* os.getpid() values
Pids == {4242}

\* the 'extra' attributes of a record: attribute name -> string
NoExtra == [k \in {} |-> ""]
\* a LogRecord; exc_info is the name of the attached exception, "" for none
LogRecord(levelname, msg, funcName, exc_info, extra) ==
    [levelname |-> levelname, name |-> "WeatherService", msg |-> msg,
     filename |-> "weather.py", funcName |-> funcName, process |-> CHOOSE p \in Pids : TRUE,
     threadName |-> "MainThread", exc_info |-> exc_info, extra |-> extra]

\* ''.join(traceback.format_exception(*record.exc_info))
format_exception(exc_info) == "Traceback (most recent call last): " \o exc_info

\* a formatter whose default duration is spelled differently
record_duration_short(record) ==
    IF "duration" \in DOMAIN record.extra THEN record.extra["duration"] ELSE "0s"

\* getattr(record, 'duration', '0.0s')
record_duration(record) ==
    IF "duration" \in DOMAIN record.extra THEN record.extra["duration"] ELSE "0.0s"

\* a formatter that prefers the supplied string to the attached exception
error_details_supplied_first(record) ==
    IF "error_details" \in DOMAIN record.extra THEN <<record.extra["error_details"]>>
    ELSE IF record.exc_info # "" THEN <<format_exception(record.exc_info)>>
    ELSE <<>>

\* lines 37-40: the value of 'error_details' (<<>> when the key is not set):
\* the formatted exception if one is attached, else the record's
\* error_details attribute if it has one
error_details(record) ==
    IF record.exc_info # "" THEN <<format_exception(record.exc_info)>>
    ELSE IF "error_details" \in DOMAIN record.extra THEN <<record.extra["error_details"]>>
    ELSE <<>>

\* the dictionary JSONFormatter.format builds, key -> JSON value
log_record(record, c, environment) ==
    LET fixed == [k \in {"timestamp", "level", "logger", "message", "correlation_id",
                         "request_id", "user_id", "file", "function", "process",
                         "thread", "environment", "app_version", "host", "duration"} |->
            CASE k = "timestamp" -> JStr(Now)
              [] k = "level" -> JStr(record.levelname)
              [] k = "logger" -> JStr(record.name)
              [] k = "message" -> JStr(record.msg)
              [] k = "correlation_id" -> JStr(c.correlation_id)
              [] k = "request_id" -> JStr(c.request_id)
              [] k = "user_id" -> JStr(c.user_id)
              [] k = "file" -> JStr(record.filename \o ":" \o "lineno")
              [] k = "function" -> JStr(record.funcName)
              [] k = "process" -> JNum(record.process)
              [] k = "thread" -> JStr(record.threadName)
              [] k = "environment" -> JStr(environment)
              [] k = "app_version" -> JStr("0.1.0")
              [] k = "host" -> JStr("localhost")
              [] k = "duration" -> JStr(record_duration(record))]
    IN IF error_details(record) # <<>>
       THEN [k \in DOMAIN fixed \cup {"error_details"} |->
                IF k = "error_details" THEN JStr(error_details(record)[1])
                ELSE fixed[k]]
       ELSE fixed

\* the order in which the dictionary's keys were inserted
JSONKeys == <<"timestamp", "level", "logger", "message", "correlation_id",
              "request_id", "user_id", "file", "function", "process", "thread",
              "environment", "app_version", "host", "duration", "error_details">>

\* the JSON literal of a value
Literal(v) ==
    CASE v.type = "string" -> [kind |-> "string", text |-> v.s]
      [] v.type = "number" -> [kind |-> "number", text |-> ToString(v.n)]
      [] v.type = "null" -> [kind |-> "literal", text |-> "null"]

\* the value of a JSON literal
Value(lit) ==
    CASE lit.kind = "string" -> JStr(lit.text)
      [] lit.kind = "number" -> JNum(CHOOSE n \in Pids : ToString(n) = lit.text)
      [] lit.kind = "literal" -> PyNone

RECURSIVE Members(_, _)
Members(d, keys) ==
    IF keys = <<>> THEN <<>>
    ELSE (IF Head(keys) \in DOMAIN d
          THEN <<[key |-> Head(keys), lit |-> Literal(d[Head(keys)])]>>
          ELSE <<>>) \o Members(d, Tail(keys))

\* json.dumps(d) of a flat dictionary: its "key": literal members, in order
dumps(d) == Members(d, JSONKeys)

\* json.loads(text): the dictionary of a members list
loads(text) ==
    [k \in {text[i].key : i \in DOMAIN text} |->
        Value(text[CHOOSE i \in DOMAIN text : text[i].key = k /\
                  \A j \in DOMAIN text : text[j].key = k => j <= i].lit)]

(* -------------------------------- state -------------------------------- *)
VARIABLES
    logLevel,   \* LOG_LEVEL, the logger's threshold (set once at import)
    env,        \* ENV, which selects the formatter (set once at import)
    ctx,        \* per task: the values of the three ContextVars in its context
    pc,         \* per task: "idle", "awaiting" (suspended in client.get), "done"
    opNum,      \* per task: how many operations its context has started
    frame,      \* per task: the locals of the running operation and fetch
    clients,    \* per task: httpx.AsyncClient instances open
    trace,      \* per task: what the current operation did and logged, in order
    result,     \* per task: how the last operation ended
    workers,    \* the tasks the dispatcher runs operations in
    scope       \* which arguments, upstream documents and GET outcomes are drawn

vars == <<logLevel, env, ctx, pc, opNum, frame, clients, trace, result, workers,
          scope>>

\* an identifier generated once per operation and handed out again at each call
Uuid4_once(t, op, n) == "uuid-" \o t \o "-" \o ToString(op) \o "-0"

\* str(uuid.uuid4()): a value no other call produces; the n-th call of the
\* op-th operation of task t
Uuid4(t, op, n) == "uuid-" \o t \o "-" \o ToString(op) \o "-" \o ToString(n)

\* the defaults of the three ContextVars, computed once at import
DefaultContext ==
    [correlation_id |-> "uuid-import-1", request_id |-> "uuid-import-2",
     user_id |-> "unknown"]

\* one step of an operation: an event (with the value it carries, if any)
\* or a record the handler wrote, with the context the log call ran in
Event(ev, info) == [ev |-> ev, info |-> info]
ValueEvent(ev, info, val) == [ev |-> ev, info |-> info, val |-> val]
Written(record, c, out) ==
    [ev |-> "log", info |-> record.levelname, rec |-> record, ctx |-> c, out |-> out]

\* JSONFormatter.format(record), reading the context c of the calling task
JSONFormatter_format(record, c) == dumps(log_record(record, c, env))

\* logging.Formatter('%(asctime)s - %(levelname)s - %(name)s - %(message)s')
Formatter_format(record) ==
    Now \o " - " \o record.levelname \o " - " \o record.name \o " - " \o record.msg
        \o (IF record.exc_info # "" THEN "\n" \o format_exception(record.exc_info)
            ELSE "")

\* console_handler's formatter: JSON in production, the plain line otherwise
console_format(record, c) ==
    IF env = "production"
    THEN [fmt |-> "json", json |-> JSONFormatter_format(record, c), line |-> ""]
    ELSE [fmt |-> "text", json |-> <<>>, line |-> Formatter_format(record)]

\* logger.debug/info/warning/error/exception: the entries the call adds
\* (none when the level is below the logger's threshold)
Log(record, c) ==
    IF LevelNo(record.levelname) >= LevelNo(logLevel)
    THEN <<Written(record, c, console_format(record, c))>>
    ELSE <<>>

(* --------------------------- make_nws_request -------------------------- *)
NWS_API_BASE == "https://api.weather.gov"

\* the classes an exception is an instance of
Bases(exc) ==
    CASE exc = "HTTPStatusError" -> {"HTTPStatusError", "HTTPError", "Exception"}
      [] exc = "ReadTimeout" ->
           {"ReadTimeout", "TimeoutException", "TransportError", "HTTPError", "Exception"}
      [] exc = "ConnectError" ->
           {"ConnectError", "NetworkError", "TransportError", "HTTPError", "Exception"}
      [] exc = "JSONDecodeError" -> {"JSONDecodeError", "ValueError", "Exception"}
      [] exc \in {"KeyError", "TypeError", "AttributeError"} -> {exc, "Exception"}

\* a response body: JSON text of a value, or text json() cannot decode
Body(value) == [decodable |-> TRUE, value |-> value]
Undecodable == [decodable |-> FALSE, value |-> PyNone]
\* what 'await client.get(url, headers=headers)' ends with
Response(status, body) == [kind |-> "response", status |-> status, body |-> body, exc |-> ""]
Raises(exc) == [kind |-> "raise", status |-> 0, body |-> Undecodable, exc |-> exc]

\* a fetcher that issues its GET first and installs the request id after it
make_nws_request_enter_late(t, op, n, url, c) ==
    LET req_id == Uuid4(t, op, n)
        c1 == [c EXCEPT !.request_id = req_id]
    IN [ctx |-> c1,
        req_id |-> req_id,
        entries |->
            <<Event("fetch_enter", url), Event("client_open", req_id), Event("get", url),
              Event("set_request_id", req_id)>>]

\* lines 75-85: up to the await of client.get; c is the caller's context
make_nws_request_enter(t, op, n, url, c) ==
    LET req_id == Uuid4(t, op, n)
        c1 == [c EXCEPT !.request_id = req_id]
    IN [ctx |-> c1,
        req_id |-> req_id,
        entries |->
            <<Event("fetch_enter", url), Event("set_request_id", req_id)>>
            \o Log(LogRecord("DEBUG", "Making request to: " \o url, "make_nws_request",
                             "", [k \in {"request_id"} |-> req_id]), c1)
            \o <<Event("client_open", req_id), Event("get", url)>>]

\* a try body that closes its client by hand after response.json(), so that
\* an exception leaves the client open
make_nws_request_try_leaky(url, req_id, outcome, c) ==
    IF outcome.kind = "raise"
    THEN [exc |-> outcome.exc, status |-> 0, value |-> PyNone,
          entries |-> <<Event("get_done", outcome.exc)>>]
    ELSE IF outcome.status \notin 200..299
    THEN [exc |-> "HTTPStatusError", status |-> outcome.status, value |-> PyNone,
          entries |-> <<Event("get_done", ToString(outcome.status))>>]
    ELSE [exc |-> IF outcome.body.decodable THEN "" ELSE "JSONDecodeError",
          status |-> outcome.status,
          value |-> outcome.body.value,
          entries |-> <<Event("get_done", ToString(outcome.status)),
                        ValueEvent("json",
                                   IF outcome.body.decodable THEN "decoded"
                                   ELSE "JSONDecodeError",
                                   outcome.body.value)>>
                      \o (IF outcome.body.decodable
                          THEN <<Event("client_close", req_id)>> ELSE <<>>)]

\* lines 85-90: the rest of the try body once client.get has ended;
\* exc is the exception leaving the 'async with' block, "" for none
make_nws_request_try(url, req_id, outcome, c) ==
    IF outcome.kind = "raise"
    THEN [exc |-> outcome.exc, status |-> 0, value |-> PyNone,
          entries |-> <<Event("get_done", outcome.exc), Event("client_close", req_id)>>]
    ELSE IF outcome.status \notin 200..299
    THEN [exc |-> "HTTPStatusError", status |-> outcome.status, value |-> PyNone,
          entries |-> <<Event("get_done", ToString(outcome.status)),
                        Event("client_close", req_id)>>]
    ELSE LET info == Log(LogRecord("INFO",
                             "Request to " \o url \o " successful. Status code: "
                                 \o ToString(outcome.status),
                             "make_nws_request", "",
                             [k \in {"duration", "request_id"} |->
                                 IF k = "duration" THEN Elapsed ELSE req_id]), c)
         IN [exc |-> IF outcome.body.decodable THEN "" ELSE "JSONDecodeError",
             status |-> outcome.status,
             value |-> outcome.body.value,
             entries |-> <<Event("get_done", ToString(outcome.status))>> \o info
                         \o <<ValueEvent("json",
                                     IF outcome.body.decodable THEN "decoded"
                                     ELSE "JSONDecodeError",
                                     outcome.body.value),
                               Event("client_close", req_id)>>]

\* make_nws_request with 'except Exception' written first: every failure is
\* handled, and logged, as an HTTP status error
make_nws_request_except_first(exc) ==
    IF "Exception" \in Bases(exc) THEN "HTTPStatusError" ELSE ""

\* make_nws_request without its last clause, 'except Exception'
make_nws_request_except_two(exc) ==
    IF "HTTPStatusError" \in Bases(exc) THEN "HTTPStatusError"
    ELSE IF "TimeoutException" \in Bases(exc) THEN "TimeoutException"
    ELSE ""

\* which except clause of make_nws_request takes the exception ("" for none)
make_nws_request_except(exc) ==
    IF "HTTPStatusError" \in Bases(exc) THEN "HTTPStatusError"
    ELSE IF "TimeoutException" \in Bases(exc) THEN "TimeoutException"
    ELSE IF "Exception" \in Bases(exc) THEN "Exception"
    ELSE ""

\* a fetcher that tells its caller which failure it met: a timeout comes
\* back as the status 408 instead of None
except_return_kind(clause) ==
    IF clause = "TimeoutException" THEN JNum(408) ELSE PyNone

\* what the except clause that took the exception returns: None in each
except_return(clause) == PyNone

\* lines 85-105: from the end of client.get to the end of the call
make_nws_request_exit(url, req_id, outcome, c) ==
    LET body == make_nws_request_try(url, req_id, outcome, c)
        clause == IF body.exc = "" THEN "" ELSE make_nws_request_except(body.exc)
        timed == [k \in {"duration", "request_id"} |->
                     IF k = "duration" THEN Elapsed ELSE req_id]
    IN IF body.exc = ""
       THEN [how |-> "return", value |-> body.value, exc |-> "",
             entries |-> body.entries
                 \o <<ValueEvent("fetch_exit", "return", body.value)>>]
       ELSE IF clause = "HTTPStatusError"
       THEN [how |-> "return", value |-> except_return(clause), exc |-> "",
             entries |-> body.entries
                 \o Log(LogRecord("ERROR", "HTTP error occurred: " \o ToString(body.status),
                                  "make_nws_request", body.exc,
                                  [k \in {"error_code", "duration", "request_id"} |->
                                      IF k = "error_code" THEN ToString(body.status)
                                      ELSE timed[k]]), c)
                 \o <<ValueEvent("fetch_exit", "return", except_return(clause))>>]
       ELSE IF clause = "TimeoutException"
       THEN [how |-> "return", value |-> except_return(clause), exc |-> "",
             entries |-> body.entries
                 \o Log(LogRecord("ERROR", "Timeout error occurred: " \o body.exc,
                                  "make_nws_request", body.exc, timed), c)
                 \o <<ValueEvent("fetch_exit", "return", except_return(clause))>>]
       ELSE IF clause = "Exception"
       THEN [how |-> "return", value |-> except_return(clause), exc |-> "",
             entries |-> body.entries
                 \o Log(LogRecord("ERROR", "An unexpected error occurred: " \o body.exc,
                                  "make_nws_request", body.exc, timed), c)
                 \o <<ValueEvent("fetch_exit", "return", except_return(clause))>>]
       ELSE [how |-> "raise", value |-> PyNone, exc |-> body.exc,
             entries |-> body.entries
                 \o <<ValueEvent("fetch_exit", "raise", PyNone)>>]

(* ------------------------------ get_alerts ----------------------------- *)
\* extra={"correlation_id": corr_id}, with the duration where one is passed
OpExtra(corr_id, timed) ==
    IF timed
    THEN [k \in {"duration", "correlation_id"} |->
             IF k = "duration" THEN Elapsed ELSE corr_id]
    ELSE [k \in {"correlation_id"} |-> corr_id]

\* the first exception in a sequence of evaluations, "" when none raised
FirstExc(vals) ==
    IF \E i \in DOMAIN vals : IsExc(vals[i])
    THEN vals[CHOOSE i \in DOMAIN vals :
                 IsExc(vals[i]) /\ \A j \in DOMAIN vals : IsExc(vals[j]) => i <= j].name
    ELSE ""

\* lines 126-132: from the call to the await inside make_nws_request
get_alerts_enter(t, op, state, c) ==
    LET corr_id == Uuid4(t, op, 0)
        c1 == [c EXCEPT !.correlation_id = corr_id]
        url == NWS_API_BASE \o "/alerts/active/area/" \o state
        f == make_nws_request_enter(t, op, 1, url, c1)
    IN [ctx |-> f.ctx, corr_id |-> corr_id, req_id |-> f.req_id, url |-> url,
        entries |->
            <<Event("op_start", "get_alerts"), Event("set_correlation_id", corr_id)>>
            \o Log(LogRecord("INFO", "Getting alerts for state: " \o state, "get_alerts",
                             "", OpExtra(corr_id, FALSE)), c1)
            \o f.entries]

\* lines 132-146: the try body once make_nws_request has ended
get_alerts_try(state, corr_id, fetched, c) ==
    LET unable ==
            [exc |-> "", ret |-> Line("Unable to fetch alerts or no alerts found."),
             entries |-> Log(LogRecord("WARNING",
                 "No data or 'features' key found for state: " \o state, "get_alerts",
                 "", OpExtra(corr_id, FALSE)), c)]
        raise(exc) == [exc |-> exc, ret |-> EmptyText, entries |-> <<>>]
        data == fetched.value
    IN IF fetched.how = "raise" THEN raise(fetched.exc)
       ELSE IF ~Truthy(data) THEN unable
       ELSE LET has == KeyIn("features", data) IN
       IF IsExc(has) THEN raise(has.name)
       ELSE IF ~has.b THEN unable
       ELSE LET features == GetItem(data, "features") IN
       IF IsExc(features) THEN raise(features.name)
       ELSE IF ~Truthy(features)
       THEN [exc |-> "", ret |-> Line("No active alerts for this state."),
             entries |-> Log(LogRecord("INFO",
                 "No active alerts found for state: " \o state, "get_alerts",
                 "", OpExtra(corr_id, FALSE)), c)]
       ELSE LET it == Iterate(features) IN
       IF IsExc(it) THEN raise(it.name)
       ELSE LET alerts == [i \in DOMAIN it.items |-> format_alert(it.items[i])] IN
       IF FirstExc(alerts) # "" THEN raise(FirstExc(alerts))
       ELSE [exc |-> "",
             ret |-> Join(Separator, [i \in DOMAIN alerts |-> alerts[i].lines]),
             entries |-> Log(LogRecord("INFO",
                 "Successfully fetched and formatted alerts for state: " \o state,
                 "get_alerts", "", OpExtra(corr_id, TRUE)), c)]

\* get_alerts with no except clause around its body
get_alerts_catches_none(exc) == FALSE

\* line 147: whether get_alerts' 'except Exception' takes the exception
get_alerts_catches(exc) == "Exception" \in Bases(exc)

\* lines 129-151: how get_alerts ends once make_nws_request has ended
get_alerts_exit(state, corr_id, fetched, c) ==
    LET body == get_alerts_try(state, corr_id, fetched, c) IN
    IF body.exc = ""
    THEN [how |-> "return", text |-> body.ret, exc |-> "", entries |-> body.entries]
    ELSE IF get_alerts_catches(body.exc)
    THEN [how |-> "return", text |-> Line("An error occurred while fetching alerts."),
          exc |-> "",
          entries |-> body.entries
              \o Log(LogRecord("ERROR", "Error getting alerts for state: " \o state,
                               "get_alerts", body.exc, OpExtra(corr_id, TRUE)), c)]
    ELSE [how |-> "raise", text |-> EmptyText, exc |-> body.exc, entries |-> body.entries]

(* ----------------------------- get_forecast ---------------------------- *)
\* lines 161-168: from the call to the await inside the first fetch
get_forecast_enter(t, op, latitude, longitude, c) ==
    LET corr_id == Uuid4(t, op, 0)
        c1 == [c EXCEPT !.correlation_id = corr_id]
        points_url == NWS_API_BASE \o "/points/" \o latitude \o "," \o longitude
        f == make_nws_request_enter(t, op, 1, points_url, c1)
    IN [ctx |-> f.ctx, corr_id |-> corr_id, req_id |-> f.req_id, url |-> points_url,
        entries |->
            <<Event("op_start", "get_forecast"), Event("set_correlation_id", corr_id)>>
            \o Log(LogRecord("INFO", "Getting forecast for latitude: " \o latitude
                                 \o ", longitude: " \o longitude, "get_forecast",
                             "", OpExtra(corr_id, FALSE)), c1)
            \o f.entries]

\* get_forecast going on without the check of the points fetch
points_missing_never(data) == FALSE

\* line 170: 'if not data'
points_missing(data) == ~Truthy(data)

\* lines 168-176: after the points fetch, up to the await inside the second
\* fetch (next = TRUE) or to the end of the try body
get_forecast_points(t, op, where, corr_id, fetched, c) ==
    LET stop(exc, ret, entries) ==
            [next |-> FALSE, exc |-> exc, ret |-> ret, entries |-> entries,
             ctx |-> c, req_id |-> "", url |-> ""]
        data == fetched.value
    IN IF fetched.how = "raise" THEN stop(fetched.exc, EmptyText, <<>>)
       ELSE IF points_missing(data)
       THEN stop("", Line("Unable to fetch forecast data for this location."),
                 Log(LogRecord("WARNING", "Unable to fetch forecast data for " \o where,
                               "get_forecast", "", OpExtra(corr_id, FALSE)), c))
       ELSE LET properties == GetItem(data, "properties") IN
       IF IsExc(properties) THEN stop(properties.name, EmptyText, <<>>)
       ELSE LET forecast_url == GetItem(properties, "forecast") IN
       IF IsExc(forecast_url) THEN stop(forecast_url.name, EmptyText, <<>>)
       ELSE LET f == make_nws_request_enter(t, op, 2, Str(forecast_url), c) IN
            [next |-> TRUE, exc |-> "", ret |-> EmptyText, entries |-> f.entries,
             ctx |-> f.ctx, req_id |-> f.req_id, url |-> Str(forecast_url)]

\* one period of the forecast, lines 186-191: exception or text
format_period(period) ==
    LET vals == [i \in 1..6 |->
                    GetItem(period, <<"name", "temperature", "temperatureUnit",
                                      "windSpeed", "windDirection",
                                      "detailedForecast">>[i])]
    IN IF FirstExc(vals) # "" THEN Exc(FirstExc(vals))
       ELSE [type |-> "text",
             lines |-> << "",
                          Str(vals[1]) \o ":",
                          "Temperature: " \o Str(vals[2]) \o "Â°" \o Str(vals[3]),
                          "Wind: " \o Str(vals[4]) \o " " \o Str(vals[5]),
                          "Forecast: " \o Str(vals[6]),
                          "" >>]

\* lines 176-196: the try body once the second make_nws_request has ended
get_forecast_try(where, corr_id, fetched, c) ==
    LET raise(exc) == [exc |-> exc, ret |-> EmptyText, entries |-> <<>>]
        forecast_data == fetched.value
    IN IF fetched.how = "raise" THEN raise(fetched.exc)
       ELSE IF ~Truthy(forecast_data)
       THEN [exc |-> "", ret |-> Line("Unable to fetch detailed forecast."),
             entries |-> Log(LogRecord("WARNING",
                 "Unable to fetch detailed forecast for " \o where, "get_forecast",
                 "", OpExtra(corr_id, FALSE)), c)]
       ELSE LET properties == GetItem(forecast_data, "properties") IN
       IF IsExc(properties) THEN raise(properties.name)
       ELSE LET periods == GetItem(properties, "periods") IN
       IF IsExc(periods) THEN raise(periods.name)
       ELSE LET shown == Slice(periods, ForecastPeriods) IN
       IF IsExc(shown) THEN raise(shown.name)
       ELSE LET forecasts == [i \in DOMAIN shown.items |-> format_period(shown.items[i])] IN
       IF FirstExc(forecasts) # "" THEN raise(FirstExc(forecasts))
       ELSE [exc |-> "",
             ret |-> Join(Separator, [i \in DOMAIN forecasts |-> forecasts[i].lines]),
             entries |-> Log(LogRecord("INFO",
                 "Successfully fetched and formatted forecast for " \o where,
                 "get_forecast", "", OpExtra(corr_id, TRUE)), c)]

\* line 197: whether get_forecast's 'except Exception' takes the exception
get_forecast_catches(exc) == "Exception" \in Bases(exc)

\* lines 164-201: how get_forecast ends with the try body's outcome
get_forecast_exit(where, corr_id, body, c) ==
    IF body.exc = ""
    THEN [how |-> "return", text |-> body.ret, exc |-> "", entries |-> body.entries]
    ELSE IF get_forecast_catches(body.exc)
    THEN [how |-> "return", text |-> Line("An error occurred while fetching forecast."),
          exc |-> "",
          entries |-> body.entries
              \o Log(LogRecord("ERROR", "Error getting forecast for " \o where,
                               "get_forecast", body.exc, OpExtra(corr_id, TRUE)), c)]
    ELSE [how |-> "raise", text |-> EmptyText, exc |-> body.exc, entries |-> body.entries]

(* --------------------- what the upstream may answer -------------------- *)
Props(members) == JObj([k \in {"properties"} |-> members])
\* alert features: two well-formed ones, one with no optional key, and one
\* without 'properties'
FloodWarning ==
    Props(JObj([k \in {"event", "areaDesc"} |->
                   IF k = "event" THEN JStr("Flood Warning") ELSE JStr("Coast")]))
HeatAdvisory == Props(JObj([k \in {"event"} |-> JStr("Heat Advisory")]))
BareFeature == Props(JObj(EmptyMembers))
NoPropsFeature == JObj(EmptyMembers)
Features == {FloodWarning, HeatAdvisory, BareFeature, NoPropsFeature}
FeatureLists == UNION {[1..n -> Features] : n \in 1..MaxFeatures}

AlertPayloads ==
    {PyNone, JNum(5), JObj(EmptyMembers),
     JObj([k \in {"title"} |-> JStr("alerts")]),
     JObj([k \in {"features"} |-> PyNone]),
     JObj([k \in {"features"} |-> JArr(<<>>)])}
    \cup {JObj([k \in {"features"} |-> JArr(fs)]) : fs \in FeatureLists}

ForecastUrl == NWS_API_BASE \o "/gridpoints/TOP/31,80/forecast"
PointsPayloads ==
    {JObj(EmptyMembers), Props(PyNone), Props(JObj(EmptyMembers)),
     Props(JObj([k \in {"forecast"} |-> JStr(ForecastUrl)]))}

\* the i-th forecast period; a malformed one lacks 'temperature'
Period(i, wellFormed) ==
    JObj([k \in {"name", "temperatureUnit", "windSpeed", "windDirection",
                 "detailedForecast"} \cup (IF wellFormed THEN {"temperature"} ELSE {}) |->
             CASE k = "name" -> JStr("Period " \o ToString(i))
               [] k = "temperature" -> JNum(50 + i)
               [] k = "temperatureUnit" -> JStr("F")
               [] k = "windSpeed" -> JStr("5 mph")
               [] k = "windDirection" -> JStr("NW")
               [] k = "detailedForecast" -> JStr("Sunny")])
\* n periods, all well-formed (bad = 0) or with the bad-th malformed
PeriodList(n, bad) == [i \in 1..n |-> Period(i, i # bad)]
PeriodLists ==
    {PeriodList(p[1], p[2]) :
        p \in {q \in (0..MaxPeriods) \X (0..MaxPeriods) : q[2] <= q[1]}}

ForecastPayloads ==
    {JObj(EmptyMembers), Props(JObj(EmptyMembers)),
     Props(JObj([k \in {"periods"} |-> PyNone]))}
    \cup {Props(JObj([k \in {"periods"} |-> JArr(ps)])) : ps \in PeriodLists}

\* every way 'await client.get' can end, for the payloads an endpoint may send
Outcomes(payloads) ==
    {Response(200, Body(v)) : v \in payloads}
    \cup {Response(200, Undecodable),
          Response(404, Body(JObj(EmptyMembers))),
          Response(500, Undecodable),
          Raises("ReadTimeout"), Raises("ConnectError")}

\* the outcomes of a GET drawn in a scope: under "fair" the GET responds
\* with a document or times out, elsewhere it ends in every way it can
Answers(which, payloads) ==
    IF which = "fair"
    THEN {Response(200, Body(v)) : v \in payloads} \cup {Raises("ReadTimeout")}
    ELSE Outcomes(payloads)

\* arguments the tools are called with
States(which) == IF which = "all" THEN {"CA", "XX"} ELSE {"CA"}
Coordinates(which) ==
    IF which = "all" THEN {<<"0.0", "0.0">>, <<"38.5", "-121.7">>}
    ELSE {<<"0.0", "0.0">>}

(* ------------------------------- actions ------------------------------- *)
NoFrame ==
    [kind |-> "", state |-> "", where |-> "", corr_id |-> "", n |-> 0,
     req_id |-> "", url |-> ""]
NoResult == [how |-> "none", text |-> EmptyText, exc |-> ""]

\* ContextVar.get() in task t: the value in the task's own context
ContextOf(t) == ctx[t]
\* module-level globals in place of ContextVars: a write is seen by all tasks
SetContext_global(t, c) == [u \in Tasks |-> c]

\* ContextVar.set() in task t: changes the task's own context only
SetContext(t, c) == [ctx EXCEPT ![t] = c]

Count(entries, ev) == Cardinality({i \in DOMAIN entries : entries[i].ev = ev})
ClientsAfter(t, entries) ==
    [clients EXCEPT ![t] = @ + Count(entries, "client_open") - Count(entries, "client_close")]

\* the documents each endpoint may answer with: every document of the
\* model ("all"), or the few that suffice to take each branch ("core")
Documents(which) ==
    IF which = "all"
    THEN [alerts |-> AlertPayloads, points |-> PointsPayloads,
          forecast |-> ForecastPayloads]
    ELSE [alerts |-> {JObj([k \in {"features"} |-> JArr(<<FloodWarning>>)])},
          points |-> {Props(JObj([k \in {"forecast"} |-> JStr(ForecastUrl)]))},
          forecast |-> {Props(JObj([k \in {"periods"} |-> JArr(PeriodList(1, 0))]))}]

\* the process after import, before the first call
Start ==
    /\ logLevel \in LogLevels
    /\ env \in Envs
    /\ ctx = [t \in Tasks |-> DefaultContext]
    /\ pc = [t \in Tasks |-> "idle"]
    /\ opNum = [t \in Tasks |-> 0]
    /\ frame = [t \in Tasks |-> NoFrame]
    /\ clients = [t \in Tasks |-> 0]
    /\ trace = [t \in Tasks |-> <<>>]
    /\ result = [t \in Tasks |-> NoResult]

\* operations run concurrently in every task, with one argument each; the
\* upstream answers with the core documents or fails
Init ==
    /\ Start
    /\ workers = Tasks
    /\ scope = "core"

\* operations run one after the other in one task, with any argument; the
\* upstream answers with any document or fails
InitPayloads ==
    /\ Start
    /\ workers = {"t1"}
    /\ scope = "all"

\* the dispatcher calls get_alerts(state) in task t
CallGetAlerts(t, state) ==
    /\ t \in workers
    /\ pc[t] # "awaiting"
    /\ opNum[t] < MaxOps
    /\ LET e == get_alerts_enter(t, opNum[t] + 1, state, ContextOf(t)) IN
       /\ ctx' = SetContext(t, e.ctx)
       /\ frame' = [frame EXCEPT ![t] =
              [kind |-> "get_alerts", state |-> state, where |-> "",
               corr_id |-> e.corr_id, n |-> 1, req_id |-> e.req_id, url |-> e.url]]
       /\ trace' = [trace EXCEPT ![t] = e.entries]
       /\ clients' = ClientsAfter(t, e.entries)
    /\ opNum' = [opNum EXCEPT ![t] = @ + 1]
    /\ pc' = [pc EXCEPT ![t] = "awaiting"]
    /\ result' = [result EXCEPT ![t] = NoResult]
    /\ UNCHANGED <<logLevel, env, workers, scope>>

\* the dispatcher calls get_forecast(latitude, longitude) in task t
CallGetForecast(t, latitude, longitude) ==
    /\ t \in workers
    /\ pc[t] # "awaiting"
    /\ opNum[t] < MaxOps
    /\ LET e == get_forecast_enter(t, opNum[t] + 1, latitude, longitude, ContextOf(t)) IN
       /\ ctx' = SetContext(t, e.ctx)
       /\ frame' = [frame EXCEPT ![t] =
              [kind |-> "get_forecast", state |-> "",
               where |-> "latitude: " \o latitude \o ", longitude: " \o longitude,
               corr_id |-> e.corr_id, n |-> 1, req_id |-> e.req_id, url |-> e.url]]
       /\ trace' = [trace EXCEPT ![t] = e.entries]
       /\ clients' = ClientsAfter(t, e.entries)
    /\ opNum' = [opNum EXCEPT ![t] = @ + 1]
    /\ pc' = [pc EXCEPT ![t] = "awaiting"]
    /\ result' = [result EXCEPT ![t] = NoResult]
    /\ UNCHANGED <<logLevel, env, workers, scope>>

\* the operation of task t ends: its result goes to the transport
Finish(t, r, entries) ==
    /\ trace' = [trace EXCEPT ![t] = @ \o entries \o <<Event("op_end", r.how)>>]
    /\ clients' = ClientsAfter(t, entries)
    /\ result' = [result EXCEPT ![t] = [how |-> r.how, text |-> r.text, exc |-> r.exc]]
    /\ pc' = [pc EXCEPT ![t] = "done"]
    /\ UNCHANGED <<logLevel, env, ctx, opNum, frame, workers, scope>>

\* a GET that holds the event loop: get_alerts resumes only when no other
\* task is suspended in a fetch
AlertsFetched_blocking(t) ==
    /\ pc[t] = "awaiting"
    /\ \A u \in Tasks \ {t} : pc[u] # "awaiting"
    /\ frame[t].kind = "get_alerts"
    /\ \E outcome \in Answers(scope, Documents(scope).alerts) :
         LET f == frame[t] IN
         \E fetched \in {make_nws_request_exit(f.url, f.req_id, outcome, ContextOf(t))} :
         \E r \in {get_alerts_exit(f.state, f.corr_id, fetched, ContextOf(t))} :
            Finish(t, r, fetched.entries \o r.entries)

\* get_alerts resumes: client.get ended, the fetch and the operation finish
AlertsFetched(t) ==
    /\ pc[t] = "awaiting"
    /\ frame[t].kind = "get_alerts"
    /\ \E outcome \in Answers(scope, Documents(scope).alerts) :
         LET f == frame[t] IN
         \E fetched \in {make_nws_request_exit(f.url, f.req_id, outcome, ContextOf(t))} :
         \E r \in {get_alerts_exit(f.state, f.corr_id, fetched, ContextOf(t))} :
            Finish(t, r, fetched.entries \o r.entries)

\* get_forecast resumes from the points fetch: it finishes, or starts the
\* forecast fetch and suspends again
PointsFetched(t) ==
    /\ pc[t] = "awaiting"
    /\ frame[t].kind = "get_forecast"
    /\ frame[t].n = 1
    /\ \E outcome \in Answers(scope, Documents(scope).points) :
         LET f == frame[t] IN
         \E fetched \in {make_nws_request_exit(f.url, f.req_id, outcome, ContextOf(t))} :
         \E g \in {get_forecast_points(t, opNum[t], f.where, f.corr_id, fetched,
                                       ContextOf(t))} :
            IF g.next
            THEN /\ ctx' = SetContext(t, g.ctx)
                 /\ frame' = [frame EXCEPT ![t] =
                        [f EXCEPT !.n = 2, !.req_id = g.req_id, !.url = g.url]]
                 /\ trace' = [trace EXCEPT ![t] = @ \o fetched.entries \o g.entries]
                 /\ clients' = ClientsAfter(t, fetched.entries \o g.entries)
                 /\ UNCHANGED <<logLevel, env, pc, opNum, result, workers, scope>>
            ELSE \E r \in {get_forecast_exit(f.where, f.corr_id, g, ContextOf(t))} :
                    Finish(t, r, fetched.entries \o r.entries)

\* get_forecast resumes from the forecast fetch and finishes
ForecastFetched(t) ==
    /\ pc[t] = "awaiting"
    /\ frame[t].kind = "get_forecast"
    /\ frame[t].n = 2
    /\ \E outcome \in Answers(scope, Documents(scope).forecast) :
         LET f == frame[t] IN
         \E fetched \in {make_nws_request_exit(f.url, f.req_id, outcome, ContextOf(t))} :
         \E body \in {get_forecast_try(f.where, f.corr_id, fetched, ContextOf(t))} :
         \E r \in {get_forecast_exit(f.where, f.corr_id, body, ContextOf(t))} :
            Finish(t, r, fetched.entries \o r.entries)

Next ==
    \/ \E t \in Tasks, state \in States(scope) : CallGetAlerts(t, state)
    \/ \E t \in Tasks, where \in Coordinates(scope) : CallGetForecast(t, where[1], where[2])
    \/ \E t \in Tasks : AlertsFetched(t)
    \/ \E t \in Tasks : PointsFetched(t)
    \/ \E t \in Tasks : ForecastFetched(t)

Spec == Init /\ [][Next]_vars
SpecPayloads == InitPayloads /\ [][Next]_vars

\* task t resumes from client.get
Resume(t) == AlertsFetched(t) \/ PointsFetched(t) \/ ForecastFetched(t)
\* every GET ends, with a response or an exception (timeout=30.0 at the
\* latest), and the event loop then resumes the task that awaits it
Fairness == \A t \in Tasks : WF_vars(Resume(t))
\* the default configuration of a production process (LOG_LEVEL unset),
\* with operations running concurrently in every task
InitFair ==
    /\ Start
    /\ logLevel = "INFO"
    /\ env = "production"
    /\ workers = Tasks
    /\ scope = "fair"
SpecFair == InitFair /\ [][Next]_vars /\ Fairness

(* ------------------------ the formatter on its own --------------------- *)
\* the 'extra' a caller may pass: nothing, an error_details string, or an
\* (empty) error_details string with a duration
Extras ==
    {NoExtra,
     [k \in {"error_details"} |-> "disk full"],
     [k \in {"error_details", "duration"} |-> IF k = "duration" THEN Elapsed ELSE ""]}
\* the records a caller may log: with or without an attached exception,
\* with or without a supplied error_details
CallerRecords ==
    {LogRecord(level, "message", "caller", exc_info, extra) :
        level \in {"INFO", "ERROR"}, exc_info \in {"", "ValueError"}, extra \in Extras}

\* the production process after import; records are logged directly
InitFormatter ==
    /\ Start
    /\ env = "production"
    /\ workers = {"t1"}
    /\ scope = "records"

\* a caller in task t logs the record: the handler formats and writes it
LogCall(t, record) ==
    /\ t \in workers
    /\ scope = "records"
    /\ Len(trace[t]) < MaxRecords
    /\ trace' = [trace EXCEPT ![t] = @ \o Log(record, ContextOf(t))]
    /\ UNCHANGED <<logLevel, env, ctx, pc, opNum, frame, clients, result, workers, scope>>

NextFormatter == \E t \in Tasks, record \in CallerRecords : LogCall(t, record)

SpecFormatter == InitFormatter /\ [][NextFormatter]_vars

(* ============================== properties ============================= *)
\* the calls of make_nws_request in a trace that have ended: <<i, j>> with
\* the call's entry at i and its end at j
Fetches(tr) ==
    {p \in (DOMAIN tr) \X (DOMAIN tr) :
        /\ p[1] < p[2]
        /\ tr[p[1]].ev = "fetch_enter"
        /\ tr[p[2]].ev = "fetch_exit"
        /\ \A k \in (p[1] + 1)..(p[2] - 1) : tr[k].ev \notin {"fetch_enter", "fetch_exit"}}
\* the positions inside a call where a given event happened
Within(tr, p, ev) == {k \in p[1]..p[2] : tr[k].ev = ev}
\* how the GET of a call ended: a status code or the name of an exception
GetEnded(tr, p) == tr[CHOOSE k \in Within(tr, p, "get_done") : TRUE].info
\* the call failed: its GET raised, answered a non-2xx status, or its body
\* did not decode
Failed(tr, p) ==
    \/ GetEnded(tr, p) # "200"
    \/ \E k \in Within(tr, p, "json") : tr[k].info = "JSONDecodeError"

\* C1: make_nws_request never raises: every call that ended returned, with
\* the decoded JSON value when the body decoded and None otherwise, and no
\* call is left unfinished once the operation has ended.
C1_FetchNeverRaises ==
    \A t \in Tasks :
        /\ \A i \in DOMAIN trace[t] :
              trace[t][i].ev = "fetch_exit" => trace[t][i].info = "return"
        /\ \A p \in Fetches(trace[t]) :
              IF Failed(trace[t], p)
              THEN trace[t][p[2]].val = PyNone
              ELSE \E k \in Within(trace[t], p, "json") :
                      trace[t][k].info = "decoded" /\ trace[t][p[2]].val = trace[t][k].val
        /\ pc[t] = "done" =>
              Count(trace[t], "fetch_enter") = Count(trace[t], "fetch_exit")

\* C1 witness: a finished get_forecast whose first fetch decoded a document
\* and whose second fetch met a connection failure.
C1_Witness ==
    \E t \in Tasks :
        /\ pc[t] = "done"
        /\ \E p \in Fetches(trace[t]), q \in Fetches(trace[t]) :
              /\ p[2] < q[1]
              /\ ~Failed(trace[t], p)
              /\ GetEnded(trace[t], q) = "ConnectError"
              /\ trace[t][q[2]].info = "return"

\* C2: exactly one log record is emitted between the entry and the return of
\* every call of make_nws_request, whatever the outcome and the threshold.
C2_OneRecordPerFetch ==
    \A t \in Tasks : \A p \in Fetches(trace[t]) :
        Cardinality(Within(trace[t], p, "log")) = 1

\* C3: every failed fetch returns None, whichever failure it met: an HTTP
\* status error, a timeout or any other exception.
C3_FailuresReturnNone ==
    \A t \in Tasks : \A p \in Fetches(trace[t]) :
        Failed(trace[t], p) =>
            /\ trace[t][p[2]].info = "return"
            /\ trace[t][p[2]].val = PyNone

\* C3 witness: a finished get_forecast whose first fetch decoded a document
\* and whose second fetch timed out and returned None.
C3_Witness ==
    \E t \in Tasks :
        /\ pc[t] = "done"
        /\ \E p \in Fetches(trace[t]) :
              /\ GetEnded(trace[t], p) = "ReadTimeout"
              /\ trace[t][p[2]].val = PyNone
        /\ \E p \in Fetches(trace[t]) : GetEnded(trace[t], p) = "200"


\* the records of a trace that JSONFormatter rendered, parsed back
JsonRecords(tr) ==
    {loads(tr[i].out.json) : i \in {k \in DOMAIN tr : tr[k].ev = "log" /\ tr[k].out.fmt = "json"}}
\* the correlation id the operation of a trace set at its start
OwnCorrelation(tr) ==
    tr[CHOOSE i \in DOMAIN tr : tr[i].ev = "set_correlation_id"].info
\* every identifier generated by the operations op of task t
IdsOf(t, ops) == {JStr(Uuid4(t, o, n)) : o \in ops, n \in 0..2}

\* C4: under any interleaving of concurrent operations, every record an
\* operation emits carries the correlation id the operation set at its start,
\* no record carries an identifier written by an operation of another task,
\* and a suspended operation still sees its own identifiers in its context.
C4_ContextIsolation ==
    \A t \in Tasks :
        /\ \A d \in JsonRecords(trace[t]) :
              /\ d["correlation_id"] = JStr(OwnCorrelation(trace[t]))
              /\ \A u \in Tasks \ {t} :
                    /\ d["correlation_id"] \notin IdsOf(u, 1..MaxOps)
                    /\ d["request_id"] \notin IdsOf(u, 1..MaxOps)
        /\ pc[t] = "awaiting" =>
              /\ ContextOf(t).correlation_id = frame[t].corr_id
              /\ ContextOf(t).request_id = frame[t].req_id

\* C4 witness: in JSON mode two get_forecast operations, each the first of
\* its task, are both suspended in their second fetch: the one that resumed
\* last logged its first fetch's outcome after the other had written its ids.
C4_Witness ==
    /\ env = "production"
    /\ logLevel = "INFO"
    /\ \A t \in Tasks :
          /\ pc[t] = "awaiting"
          /\ opNum[t] = 1
          /\ frame[t].kind = "get_forecast"
          /\ frame[t].n = 2
          /\ Cardinality(JsonRecords(trace[t])) >= 2

\* the fixed strings the tools fall back to
Fallbacks ==
    {Line("Unable to fetch alerts or no alerts found."),
     Line("No active alerts for this state."),
     Line("An error occurred while fetching alerts."),
     Line("Unable to fetch forecast data for this location."),
     Line("Unable to fetch detailed forecast."),
     Line("An error occurred while fetching forecast.")}
\* formatted content: blocks that open and close with a newline, joined
IsContent(text) == text[1] = "" /\ text[Len(text)] = ""

\* C5: get_alerts and get_forecast never raise to the transport: each ends
\* by returning a string, formatted content or one of the fixed fallbacks.
C5_ToolsReturnStrings ==
    \A t \in Tasks :
        /\ result[t].how # "raise"
        /\ pc[t] = "done" =>
              /\ result[t].how = "return"
              /\ result[t].text \in Fallbacks \/ IsContent(result[t].text)

\* the value the (last) fetch of a finished operation returned
LastFetched(tr) ==
    tr[CHOOSE i \in DOMAIN tr :
          tr[i].ev = "fetch_exit" /\ \A j \in DOMAIN tr : tr[j].ev = "fetch_exit" => j <= i].val
IsObjectWith(v, key) == v.type = "object" /\ key \in DOMAIN v.members
HasList(v, key) == IsObjectWith(v, key) /\ v.members[key].type = "array"

\* C5 witness: get_alerts got a feature without 'properties' and returned
\* the generic fallback.
C5_Witness ==
    \E t \in Tasks :
        /\ pc[t] = "done"
        /\ frame[t].kind = "get_alerts"
        /\ HasList(LastFetched(trace[t]), "features")
        /\ \E i \in DOMAIN LastFetched(trace[t]).members["features"].items :
              LastFetched(trace[t]).members["features"].items[i] = NoPropsFeature
        /\ result[t].text = Line("An error occurred while fetching alerts.")


\* what the 'Event:' line of a feature's block reads
EventOf(feature) ==
    IF IsObjectWith(feature, "properties")
       /\ IsObjectWith(feature.members["properties"], "event")
    THEN feature.members["properties"].members["event"].s
    ELSE "Unknown"
\* text is one seven-line block per feature, in order, with a "---" line
\* between neighbours
IsAlertBlocks(text, features) ==
    /\ Len(text) = 8 * Len(features) - 1
    /\ \A i \in DOMAIN features :
          /\ text[8 * (i - 1) + 1] = ""
          /\ text[8 * (i - 1) + 2] = "Event: " \o EventOf(features[i])
          /\ text[8 * (i - 1) + 7] = ""
          /\ i < Len(features) => text[8 * i] = "---"
\* the feature is an object whose 'properties' is an object
WellFormedFeature(feature) ==
    IsObjectWith(feature, "properties") /\ feature.members["properties"].type = "object"

\* the three cases both statements of C6 share: what get_alerts returns
\* for absence or a payload without 'features', and for an empty list
AlertsFallbacks(data, text) ==
    /\ (data = PyNone \/ (data.type = "object" /\ "features" \notin DOMAIN data.members))
          => text = Line("Unable to fetch alerts or no alerts found.")
    /\ (HasList(data, "features") /\ data.members["features"].items = <<>>)
          => text = Line("No active alerts for this state.")

\* C6 as stated: absence or no 'features' gives "Unable to fetch alerts or no
\* alerts found.", an empty list gives "No active alerts for this state.",
\* and n >= 1 features give the n formatted blocks joined by "---" lines.
C6_AlertsMapping ==
    \A t \in Tasks :
        (pc[t] = "done" /\ frame[t].kind = "get_alerts") =>
            LET data == LastFetched(trace[t]) IN
            /\ AlertsFallbacks(data, result[t].text)
            /\ (HasList(data, "features") /\ data.members["features"].items # <<>>)
                  => IsAlertBlocks(result[t].text, data.members["features"].items)

\* C6 amended: the same, with the n blocks promised only when every feature
\* is an object with a 'properties' object; if one is not, get_alerts
\* returns "An error occurred while fetching alerts."
C6_AlertsMappingWellFormed ==
    \A t \in Tasks :
        (pc[t] = "done" /\ frame[t].kind = "get_alerts") =>
            LET data == LastFetched(trace[t]) IN
            /\ AlertsFallbacks(data, result[t].text)
            /\ (HasList(data, "features") /\ data.members["features"].items # <<>>) =>
                  LET features == data.members["features"].items IN
                  IF \A i \in DOMAIN features : WellFormedFeature(features[i])
                  THEN IsAlertBlocks(result[t].text, features)
                  ELSE result[t].text = Line("An error occurred while fetching alerts.")

\* C6 witness: get_alerts got two well-formed features, the first a Flood
\* Warning, and returned two blocks with "Event: Flood Warning" in the first.
C6_Witness ==
    \E t \in Tasks :
        /\ pc[t] = "done"
        /\ frame[t].kind = "get_alerts"
        /\ LastFetched(trace[t]) =
              JObj([k \in {"features"} |-> JArr(<<FloodWarning, BareFeature>>)])
        /\ result[t].text[2] = "Event: Flood Warning"
        /\ result[t].text[8] = "---"
        /\ result[t].text[10] = "Event: Unknown"

\* the first call of make_nws_request of a trace, among those that ended
FirstFetch(tr) ==
    CHOOSE p \in Fetches(tr) : \A q \in Fetches(tr) : p[1] <= q[1]

\* C7: when the points fetch of get_forecast returns None the operation
\* returns "Unable to fetch forecast data for this location." having issued
\* one GET only; a second GET is issued only after the points fetch
\* returned a value.
C7_NoSecondFetch ==
    \A t \in Tasks :
        frame[t].kind = "get_forecast" =>
            LET tr == trace[t] IN
            IF Fetches(tr) = {} THEN Count(tr, "get") <= 1
            ELSE LET p == FirstFetch(tr)
                     points == tr[p[2]].val
                 IN /\ points = PyNone =>
                          /\ pc[t] = "done"
                          /\ result[t].text =
                                Line("Unable to fetch forecast data for this location.")
                          /\ Count(tr, "get") = 1
                    /\ \A k \in DOMAIN tr :
                          (tr[k].ev = "get" /\ k \notin p[1]..p[2]) =>
                              k > p[2] /\ points # PyNone

\* C7 witness: the points fetch of a get_forecast timed out.
C7_Witness ==
    \E t \in Tasks :
        /\ pc[t] = "done"
        /\ frame[t].kind = "get_forecast"
        /\ GetEnded(trace[t], FirstFetch(trace[t])) = "ReadTimeout"
        /\ result[t].text = Line("Unable to fetch forecast data for this location.")


\* what the first line of a period's block reads
NameOf(period) ==
    IF IsObjectWith(period, "name") THEN Str(period.members["name"]) \o ":" ELSE "?"
\* text is one six-line block per period, in order, with a "---" line
\* between neighbours (the empty string for no period)
IsPeriodBlocks(text, periods) ==
    /\ Len(text) = IF periods = <<>> THEN 1 ELSE 7 * Len(periods) - 1
    /\ \A i \in DOMAIN periods :
          /\ text[7 * (i - 1) + 1] = ""
          /\ text[7 * (i - 1) + 2] = NameOf(periods[i])
          /\ text[7 * (i - 1) + 6] = ""
          /\ i < Len(periods) => text[7 * i] = "---"
\* the period is an object with the six keys get_forecast reads
WellFormedPeriod(period) ==
    /\ period.type = "object"
    /\ {"name", "temperature", "temperatureUnit", "windSpeed", "windDirection",
        "detailedForecast"} \subseteq DOMAIN period.members
\* the first five entries of a list, or all of it when it is shorter
FirstFive(periods) == SubSeq(periods, 1, IF Len(periods) < 5 THEN Len(periods) ELSE 5)
\* both fetches of the finished get_forecast of task t succeeded and the
\* forecast document holds a list of periods
ForecastWithPeriods(t) ==
    /\ pc[t] = "done"
    /\ frame[t].kind = "get_forecast"
    /\ Cardinality(Fetches(trace[t])) = 2
    /\ \A p \in Fetches(trace[t]) : ~Failed(trace[t], p)
    /\ IsObjectWith(LastFetched(trace[t]), "properties")
    /\ HasList(LastFetched(trace[t]).members["properties"], "periods")
PeriodsOf(t) == LastFetched(trace[t]).members["properties"].members["periods"].items

\* C8 as stated: when both fetches succeed and the forecast holds n periods,
\* get_forecast returns the first min(n, 5) of them, formatted in order and
\* joined by "---" lines.
C8_FirstFivePeriods ==
    \A t \in Tasks :
        ForecastWithPeriods(t) => IsPeriodBlocks(result[t].text, FirstFive(PeriodsOf(t)))

\* C8 amended: the same when each of the first min(n, 5) periods has the six
\* keys the block reads; if one of them lacks a key, get_forecast returns
\* "An error occurred while fetching forecast." Periods after the fifth are
\* neither shown nor read.
C8_FirstFiveWellFormed ==
    \A t \in Tasks :
        ForecastWithPeriods(t) =>
            LET shown == FirstFive(PeriodsOf(t)) IN
            IF \A i \in DOMAIN shown : WellFormedPeriod(shown[i])
            THEN IsPeriodBlocks(result[t].text, shown)
            ELSE result[t].text = Line("An error occurred while fetching forecast.")

\* C8 witness: the forecast holds six periods, the sixth malformed, and
\* get_forecast returned the five blocks of the first five.
C8_Witness ==
    \E t \in Tasks :
        /\ ForecastWithPeriods(t)
        /\ PeriodsOf(t) = PeriodList(6, 6)
        /\ Len(result[t].text) = 34
        /\ result[t].text[2] = "Period 1:"
        /\ result[t].text[30] = "Period 5:"

\* C9: no record emitted while an operation runs carries a correlation id
\* or a request id that an earlier invocation on the same context generated.
C9_NoStaleIds ==
    \A t \in Tasks : \A d \in JsonRecords(trace[t]) :
        /\ d["correlation_id"] \notin IdsOf(t, 1..(opNum[t] - 1))
        /\ d["request_id"] \notin IdsOf(t, 1..(opNum[t] - 1))

\* the fields every rendered record holds
FixedFields ==
    {"timestamp", "level", "logger", "message", "file", "function", "process", "thread"}
\* the records of a trace together with what JSONFormatter rendered them as
Rendered(tr) == {i \in DOMAIN tr : tr[i].ev = "log" /\ tr[i].out.fmt = "json"}

\* C10: a record rendered by JSONFormatter.format parses back as an object
\* that holds every fixed field with a non-null value, and whose 'duration'
\* is the duration passed with the record, or "0.0s" when none was.
C10_JsonRoundTrip ==
    \A t \in Tasks : \A i \in Rendered(trace[t]) :
        LET d == loads(trace[t][i].out.json)
            extra == trace[t][i].rec.extra
        IN /\ FixedFields \subseteq DOMAIN d
           /\ \A k \in FixedFields : d[k] # PyNone
           /\ "duration" \in DOMAIN d
           /\ d["duration"] =
                 IF "duration" \in DOMAIN extra THEN JStr(extra["duration"])
                 ELSE JStr("0.0s")
           /\ d["level"] = JStr(trace[t][i].rec.levelname)
           /\ d["message"] = JStr(trace[t][i].rec.msg)

\* C10 witness: one operation's rendered records include one logged without
\* a duration and one logged with the elapsed time.
C10_Witness ==
    \E t \in Tasks :
        /\ \E i \in Rendered(trace[t]) :
              /\ "duration" \notin DOMAIN trace[t][i].rec.extra
              /\ loads(trace[t][i].out.json)["duration"] = JStr("0.0s")
        /\ \E i \in Rendered(trace[t]) :
              /\ "duration" \in DOMAIN trace[t][i].rec.extra
              /\ loads(trace[t][i].out.json)["duration"] = JStr(Elapsed)

\* line contains s
Contains(line, s) ==
    \E i \in 1..(Len(line) - Len(s) + 1) : SubSeq(line, i, i + Len(s) - 1) = s
\* the positions of the records a trace holds
Records(tr) == {i \in DOMAIN tr : tr[i].ev = "log"}

\* C11: in both output modes every emitted log line contains the call
\* context current at the log call: the correlation id, the request id and
\* the user id.
C11_ContextInEveryLine ==
    \A t \in Tasks : \A i \in Records(trace[t]) :
        LET c == trace[t][i].ctx
            out == trace[t][i].out
        IN IF out.fmt = "json"
           THEN LET d == loads(out.json) IN
                /\ {"correlation_id", "request_id", "user_id"} \subseteq DOMAIN d
                /\ d["correlation_id"] = JStr(c.correlation_id)
                /\ d["request_id"] = JStr(c.request_id)
                /\ d["user_id"] = JStr(c.user_id)
           ELSE /\ Contains(out.line, c.correlation_id)
                /\ Contains(out.line, c.request_id)
                /\ Contains(out.line, c.user_id)

\* the positions inside a call of the records that report its outcome: the
\* records make_nws_request logs above the debug level
OutcomeRecords(tr, p) ==
    {k \in Within(tr, p, "log") :
        tr[k].rec.funcName = "make_nws_request" /\ tr[k].rec.levelname # "DEBUG"}
\* the one position inside a call where a given event happened
The(tr, p, ev) == CHOOSE k \in Within(tr, p, ev) : TRUE

\* C12: within one operation the correlation id is set first; then, for each
\* fetch, the request id is set, the GET is issued, the GET completes, the
\* outcome record is logged and the fetch returns, in this order; no GET is
\* issued before both identifiers were set and no outcome record is logged
\* before its GET completed.
C12_StrictOrder ==
    \A t \in Tasks :
        LET tr == trace[t] IN
        /\ \A k \in DOMAIN tr :
              tr[k].ev \in {"fetch_enter", "set_request_id", "get", "get_done", "fetch_exit"}
                  => \E i \in 1..(k - 1) : tr[i].ev = "set_correlation_id"
        /\ \A k \in DOMAIN tr :
              tr[k].ev = "get" =>
                  \E i \in 1..(k - 1), j \in 1..(k - 1) :
                      /\ i < j
                      /\ tr[i].ev = "set_correlation_id"
                      /\ tr[j].ev = "set_request_id"
                      /\ \A m \in j..k : tr[m].ev \notin {"fetch_enter", "fetch_exit"}
        /\ \A p \in Fetches(tr) :
              /\ \A ev \in {"set_request_id", "get", "get_done"} :
                    Cardinality(Within(tr, p, ev)) = 1
              /\ The(tr, p, "set_request_id") < The(tr, p, "get")
              /\ The(tr, p, "get") < The(tr, p, "get_done")
              /\ \A k \in OutcomeRecords(tr, p) :
                    The(tr, p, "get_done") < k /\ k < p[2]
              /\ LevelNo(logLevel) <= LevelNo("INFO") => OutcomeRecords(tr, p) # {}
              /\ Failed(tr, p) => OutcomeRecords(tr, p) # {}
        /\ \A p \in Fetches(tr), q \in Fetches(tr) : p[1] < q[1] => p[2] < q[1]
        /\ \A k \in DOMAIN tr :
              (tr[k].ev = "log" /\ tr[k].rec.funcName = "make_nws_request") =>
                  \E i \in 1..(k - 1) :
                      /\ tr[i].ev = "fetch_enter"
                      /\ \A m \in i..k : tr[m].ev # "fetch_exit"

\* C12 witness: a finished get_forecast made two fetches, one after the
\* other, and each logged its outcome after its GET completed.
C12_Witness ==
    \E t \in Tasks :
        /\ pc[t] = "done"
        /\ frame[t].kind = "get_forecast"
        /\ Cardinality(Fetches(trace[t])) = 2
        /\ \A p \in Fetches(trace[t]) :
              \E k \in OutcomeRecords(trace[t], p) : The(trace[t], p, "get_done") < k
        /\ \E p \in Fetches(trace[t]) : Failed(trace[t], p)

\* the request id a call of make_nws_request installed
RequestIdOf(tr, p) == tr[The(tr, p, "set_request_id")].info

\* C13: each call of make_nws_request installs a freshly generated request id
\* before doing anything else; every record logged inside the call carries
\* that id; the two fetches of one get_forecast log under two different
\* request ids and under the one correlation id of the operation.
C13_FreshRequestId ==
    \A t \in Tasks :
        LET tr == trace[t] IN
        /\ \A k \in DOMAIN tr :
              tr[k].ev = "fetch_enter" =>
                  /\ k < Len(tr)
                  /\ tr[k + 1].ev = "set_request_id"
                  /\ tr[k + 1].info \notin
                        {DefaultContext.correlation_id, DefaultContext.request_id,
                         OwnCorrelation(tr)}
                  /\ JStr(tr[k + 1].info) \notin IdsOf(t, 1..(opNum[t] - 1))
                  /\ \A u \in Tasks \ {t} : JStr(tr[k + 1].info) \notin IdsOf(u, 1..MaxOps)
                  /\ \A j \in 1..(k - 1) :
                        tr[j].ev = "set_request_id" => tr[j].info # tr[k + 1].info
        /\ \A p \in Fetches(tr) : \A k \in Within(tr, p, "log") :
              /\ tr[k].ctx.request_id = RequestIdOf(tr, p)
              /\ tr[k].ctx.correlation_id = OwnCorrelation(tr)
              /\ tr[k].rec.extra["request_id"] = RequestIdOf(tr, p)
              /\ tr[k].out.fmt = "json" =>
                    /\ loads(tr[k].out.json)["request_id"] = JStr(RequestIdOf(tr, p))
                    /\ loads(tr[k].out.json)["correlation_id"] = JStr(OwnCorrelation(tr))
        /\ \A p \in Fetches(tr), q \in Fetches(tr) :
              p # q => RequestIdOf(tr, p) # RequestIdOf(tr, q)

\* C13 witness: in JSON mode a finished get_forecast made two fetches that
\* each logged a record, under two request ids and one correlation id.
C13_Witness ==
    \E t \in Tasks :
        /\ env = "production"
        /\ pc[t] = "done"
        /\ frame[t].kind = "get_forecast"
        /\ \E p \in Fetches(trace[t]), q \in Fetches(trace[t]) :
              /\ p[2] < q[1]
              /\ \E i \in Within(trace[t], p, "log"), j \in Within(trace[t], q, "log") :
                    LET a == loads(trace[t][i].out.json)
                        b == loads(trace[t][j].out.json)
                    IN /\ a["request_id"] # b["request_id"]
                       /\ a["correlation_id"] = b["correlation_id"]

\* the fallbacks that report a fetch as failed
UnableFallbacks ==
    {Line("Unable to fetch alerts or no alerts found."),
     Line("Unable to fetch forecast data for this location."),
     Line("Unable to fetch detailed forecast.")}
\* the last call of make_nws_request of a trace, among those that ended
LastFetch(tr) ==
    CHOOSE p \in Fetches(tr) : \A q \in Fetches(tr) : q[1] <= p[1]

\* C14: make_nws_request returns None if and only if one of its failure
\* branches was taken, an error-level record being logged then: a fetch with
\* a 2xx status and a decodable body is never returned as None, and no
\* operation returns an "Unable to fetch" fallback after a fetch that
\* succeeded.
C14_NoneIffFailure ==
    \A t \in Tasks :
        LET tr == trace[t] IN
        /\ \A p \in Fetches(tr) :
              /\ (tr[p[2]].val = PyNone) <=> Failed(tr, p)
              /\ Failed(tr, p) =>
                    \E k \in OutcomeRecords(tr, p) : tr[k].rec.levelname = "ERROR"
        /\ (pc[t] = "done" /\ result[t].text \in UnableFallbacks) =>
              Failed(tr, LastFetch(tr))

\* the fetches in flight: the tasks suspended in client.get
InFlight == {t \in Tasks : pc[t] = "awaiting"}
\* the sum of a per-task counter over a set of tasks
RECURSIVE Sum(_, _)
Sum(f, S) ==
    IF S = {} THEN 0
    ELSE LET t == CHOOSE u \in S : TRUE IN f[t] + Sum(f, S \ {t})

\* C15: the client a fetch opens is closed on every exit path: a call of
\* make_nws_request that returned opened one client and closed it before
\* returning, whatever its outcome; a task holds an open client only while
\* its fetch is in flight, and the open clients are never more than the
\* fetches in flight.
C15_ClientReleased ==
    /\ \A t \in Tasks :
          LET tr == trace[t] IN
          /\ \A p \in Fetches(tr) :
                /\ Cardinality(Within(tr, p, "client_open")) = 1
                /\ Cardinality(Within(tr, p, "client_close")) = 1
                /\ The(tr, p, "client_open") < The(tr, p, "get")
                /\ The(tr, p, "get_done") < The(tr, p, "client_close")
                /\ tr[The(tr, p, "client_close")].info = tr[The(tr, p, "client_open")].info
          /\ clients[t] = Count(tr, "client_open") - Count(tr, "client_close")
          /\ clients[t] = IF t \in InFlight THEN 1 ELSE 0
    /\ Sum(clients, Tasks) <= Cardinality(InFlight)

\* C15 witness: one task's operation ended after a fetch that timed out and
\* holds no client, while the other task's fetch is in flight with its
\* client open.
C15_Witness ==
    \E t \in Tasks, u \in Tasks :
        /\ pc[t] = "done"
        /\ \E p \in Fetches(trace[t]) : GetEnded(trace[t], p) = "ReadTimeout"
        /\ clients[t] = 0
        /\ pc[u] = "awaiting"
        /\ clients[u] = 1

\* the exception that sends a call to its except clauses, from how its GET
\* ended and whether its body decoded
Triggering(tr, p) ==
    IF GetEnded(tr, p) \in {"ReadTimeout", "ConnectError"} THEN GetEnded(tr, p)
    ELSE IF GetEnded(tr, p) # "200" THEN "HTTPStatusError"
    ELSE "JSONDecodeError"

\* C16: the outcome record of a fetch has the severity of its branch. An
\* INFO record reports a 2xx response, with the elapsed duration and the
\* status code; an ERROR record reports a failure, with the elapsed duration
\* and the triggering exception attached, and for an HTTP status error (and
\* for no other failure) with the numeric status code. A 2xx response is
\* reported at INFO when the threshold lets INFO through, and every failure
\* by one ERROR record.
C16_SeverityMatchesBranch ==
    \A t \in Tasks :
        LET tr == trace[t] IN
        \A p \in Fetches(tr) :
            /\ \A k \in OutcomeRecords(tr, p) :
                  LET r == tr[k].rec IN
                  /\ r.levelname \in {"INFO", "ERROR"}
                  /\ "duration" \in DOMAIN r.extra
                  /\ r.extra["duration"] = Elapsed
                  /\ r.levelname = "INFO" =>
                        /\ GetEnded(tr, p) = "200"
                        /\ Contains(r.msg, "Status code: " \o GetEnded(tr, p))
                        /\ r.exc_info = ""
                  /\ r.levelname = "ERROR" =>
                        /\ Failed(tr, p)
                        /\ r.exc_info = Triggering(tr, p)
                        /\ ("error_code" \in DOMAIN r.extra)
                              <=> (Triggering(tr, p) = "HTTPStatusError")
                        /\ Triggering(tr, p) = "HTTPStatusError" =>
                              /\ r.extra["error_code"] = GetEnded(tr, p)
                              /\ Contains(r.msg, GetEnded(tr, p))
                        /\ Contains(r.msg, "Timeout")
                              <=> (Triggering(tr, p) = "ReadTimeout")
                  /\ tr[k].out.fmt = "json" =>
                        LET d == loads(tr[k].out.json) IN
                        /\ d["level"] = JStr(r.levelname)
                        /\ d["duration"] = JStr(Elapsed)
                        /\ ("error_details" \in DOMAIN d) <=> (r.levelname = "ERROR")
                  /\ (tr[k].out.fmt = "text" /\ r.levelname = "ERROR") =>
                        Contains(tr[k].out.line, format_exception(Triggering(tr, p)))
            /\ (GetEnded(tr, p) = "200" /\ LevelNo(logLevel) <= LevelNo("INFO")) =>
                  \E k \in OutcomeRecords(tr, p) : tr[k].rec.levelname = "INFO"
            /\ Cardinality({k \in OutcomeRecords(tr, p) : tr[k].rec.levelname = "ERROR"})
                  = IF Failed(tr, p) THEN 1 ELSE 0

\* C16 witness: a finished get_forecast whose first fetch was answered 200
\* and logged at INFO, and whose second fetch timed out and logged at ERROR
\* with the timeout exception attached.
C16_Witness ==
    \E t \in Tasks :
        /\ pc[t] = "done"
        /\ \E p \in Fetches(trace[t]), q \in Fetches(trace[t]) :
              /\ p[2] < q[1]
              /\ \E k \in OutcomeRecords(trace[t], p) :
                    trace[t][k].rec.levelname = "INFO"
              /\ GetEnded(trace[t], q) = "ReadTimeout"
              /\ \E k \in OutcomeRecords(trace[t], q) :
                    /\ trace[t][k].rec.levelname = "ERROR"
                    /\ trace[t][k].rec.exc_info = "ReadTimeout"

\* C17: in a JSON line 'error_details' is the formatted stack trace of the
\* attached exception whenever one is attached, even if an error_details
\* string was supplied too; it is the supplied string when no exception is
\* attached; and the field is absent when neither is present.
C17_ErrorDetails ==
    \A t \in Tasks : \A i \in Rendered(trace[t]) :
        LET r == trace[t][i].rec
            d == loads(trace[t][i].out.json)
        IN IF r.exc_info # ""
           THEN /\ "error_details" \in DOMAIN d
                /\ d["error_details"] = JStr(format_exception(r.exc_info))
           ELSE IF "error_details" \in DOMAIN r.extra
           THEN /\ "error_details" \in DOMAIN d
                /\ d["error_details"] = JStr(r.extra["error_details"])
           ELSE "error_details" \notin DOMAIN d

\* C17 witness: a record with both an attached exception and a supplied
\* error_details string was rendered with the stack trace, and a record with
\* the string alone was rendered with the string.
C17_Witness ==
    \E t \in Tasks :
        \E i \in Rendered(trace[t]), j \in Rendered(trace[t]) :
            /\ trace[t][i].rec.exc_info = "ValueError"
            /\ trace[t][i].rec.extra = [k \in {"error_details"} |-> "disk full"]
            /\ loads(trace[t][i].out.json)["error_details"]
                  = JStr(format_exception("ValueError"))
            /\ trace[t][j].rec.exc_info = ""
            /\ trace[t][j].rec.extra = [k \in {"error_details"} |-> "disk full"]
            /\ loads(trace[t][j].out.json)["error_details"] = JStr("disk full")

\* C18: every operation that was started eventually returns a string, given
\* that every GET ends and its task is resumed; and a task suspended in a
\* fetch can always be resumed, whatever the other tasks are suspended in.
C18_EventuallyReturns ==
    /\ \A t \in Tasks :
          (pc[t] = "awaiting") ~> (pc[t] = "done" /\ result[t].how = "return")
    /\ [](\A t \in Tasks : pc[t] = "awaiting" => ENABLED Resume(t))

\* C18 witness: the first operation of one task has returned a string while
\* the other task's get_forecast is suspended in its second fetch.
C18_Witness ==
    \E t \in Tasks, u \in Tasks :
        /\ pc[t] = "done"
        /\ result[t].how = "return"
        /\ result[t].text \in Fallbacks \/ IsContent(result[t].text)
        /\ pc[u] = "awaiting"
        /\ frame[u].kind = "get_forecast"
        /\ frame[u].n = 2

====
